---- MODULE Spec2Model ----
(***************************************************************************)
(* Model of src/main.c: the CAPSENSE scan loop of main(), the interrupt    *)
(* wrapper capsense_isr(), and the two tuner hooks rtt_tuner_send() and    *)
(* rtt_tuner_receive() that the CAPSENSE middleware calls from             *)
(* Cy_CapSense_RunTuner().                                                 *)
(*                                                                         *)
(* The CAPSENSE middleware, the board support (cybsp_init) and the         *)
(* SEGGER RTT transport are outside main.c.  They appear here as the       *)
(* environment of main.c: every status they return and every byte they     *)
(* deliver is a nondeterministic choice, and the integrity predicate       *)
(* Cy_CapSense_CheckTunerCmdIntegrity is an arbitrary fixed set of valid   *)
(* packets chosen in the initial state.                                    *)
(***************************************************************************)
EXTENDS Integers, Sequences, FiniteSets, TLC

(***************************************************************************)
(* Sizes.                                                                  *)
(***************************************************************************)
\* CY_CAPSENSE_COMMAND_PACKET_SIZE and the length of command_packet[]
\* (16 in the program), scaled down.
PacketSize == 3
\* sizeof(cy_capsense_tuner), the S of the envelope, scaled down.
SnapSize == 2
\* Number of calls the scheduler log remembers.
LogLen == 5

RTT_TX_HEADER0 == 13
RTT_TX_HEADER1 == 10
RTT_TX_TAIL0 == 0
RTT_TX_TAIL1 == 255
RTT_TX_TAIL2 == 255
\* sizeof(tuner_down_buf)
DownBufSize == 32

\* Values a byte of the down channel takes in the model.
CmdBytes == {0, 1}
\* Bytes the host writes in the specification of the receive hook alone: one
\* packet preceded by up to PacketSize - 1 bytes, and one byte more.
MaxStream == 2 * PacketSize

Packets == [1..PacketSize -> CmdBytes]
\* The telemetry snapshots the engine produces in the model: all ones, and
\* the ramp 1, 2, ...
Snapshots == {[i \in 1..SnapSize |-> 1], [i \in 1..SnapSize |-> i]}
\* The predicates the integrity check is drawn from: one or two valid packets.
ValidFamilies == {{p, q} : p \in Packets, q \in Packets}

VARIABLES
  pc,               \* position of the foreground (main) context
  result,           \* main: result of cybsp_init
  status,           \* initialize_capsense: status
  irq_configured,   \* capsense_isr installed and enabled in the NVIC
  ptrTunerSendCallback,
  ptrTunerReceiveCallback,
  busy,             \* the engine's answer to Cy_CapSense_IsBusy
  locked,           \* inside SEGGER_RTT_LOCK .. SEGGER_RTT_UNLOCK
  cy_capsense_tuner,\* the telemetry snapshot
  tuner_up_buf,     \* [header, tuner_data, tail]
  RdOff, WrOff,     \* _SEGGER_RTT.aUp[RTT_TUNER_CHANNEL]
  copy_i,           \* bytes memcpy has copied so far
  down_fifo,        \* bytes waiting in the down channel (tuner_down_buf)
  data_index,       \* rtt_tuner_receive: static cursor
  command_packet,   \* rtt_tuner_receive: static buffer
  packet,           \* *packet of the running / last receive call
  tuner_packet,     \* *tuner_packet of the running / last receive call
  valid_set,        \* packets Cy_CapSense_CheckTunerCmdIntegrity accepts
  host_budget,      \* bytes the host will still write
  \* history, read by the properties only
  call_log,         \* last LogLen scheduler calls
  log_dropped,      \* call_log has lost its oldest entries
  stream,           \* every byte read from the down channel so far
  emitted,          \* every command handed to the engine so far
  check_result,     \* outcome of the integrity check of the last byte step
  ok_this_call,     \* a check succeeded in the running / last receive call
  shifts,           \* runs of the shift loop (resyncs) so far
  last_emit,        \* length of stream when the last command was emitted
  read_this_call,   \* the running / last receive call has read a byte
  split_entry,      \* the running / last receive call began with cursor > 0
  sent,             \* snapshot at entry of the running / last send call
  last_sent,        \* [snap, env, rd, wr] at the return of the last send
  observed          \* what the transport's consumer read last

vars == <<pc, result, status, irq_configured, ptrTunerSendCallback,
          ptrTunerReceiveCallback, busy, locked, cy_capsense_tuner,
          tuner_up_buf, RdOff, WrOff, copy_i, down_fifo, data_index,
          command_packet, packet, tuner_packet, valid_set, host_budget,
          call_log, log_dropped, stream, emitted, check_result, ok_this_call,
          shifts, last_emit, read_this_call, split_entry, sent, last_sent,
          observed>>

mainVars == <<result, status, irq_configured, ptrTunerSendCallback,
              ptrTunerReceiveCallback>>
sendVars == <<locked, tuner_up_buf, RdOff, WrOff, copy_i, sent, last_sent>>
recvHist == <<shifts, last_emit, read_this_call, split_entry>>
recvVars == <<data_index, command_packet, packet, tuner_packet, stream,
              emitted, check_result, ok_this_call, recvHist>>
logVars == <<call_log, log_dropped>>
envVars == <<valid_set, host_budget>>

(***************************************************************************)
(* Helpers.                                                                *)
(***************************************************************************)
\* sizeof(rtt_tuner_data_t): three arrays of uint8_t, no padding.
SizeofUpBuf == 2 + SnapSize + 3

\* The bytes of tuner_up_buf in memory order.
Bytes(buf) == buf.header \o buf.tuner_data \o buf.tail

\* The bytes the transport holds for its consumer: [RdOff, WrOff).
Pending(buf, rd, wr) == SubSeq(Bytes(buf), rd + 1, wr)

\* The last n elements of s.
LastN(s, n) == SubSeq(s, Len(s) - n + 1, Len(s))

\* Record a scheduler call in the log, which keeps the last LogLen of them.
Log(ev) ==
  IF Len(call_log) < LogLen
    THEN /\ call_log' = Append(call_log, ev)
         /\ log_dropped' = log_dropped
    ELSE /\ call_log' = Append(Tail(call_log), ev)
         /\ log_dropped' = TRUE

(***************************************************************************)
(* The integrity predicate of the engine, called at main.c:269.            *)
(***************************************************************************)
Cy_CapSense_CheckTunerCmdIntegrity(buf) ==
  IF buf \in valid_set THEN "CY_CAPSENSE_COMMAND_OK" ELSE "CY_CAPSENSE_WRONG"

(***************************************************************************)
(* Initial state: the statics of main.c as the C start-up code leaves      *)
(* them, before main() runs.                                               *)
(***************************************************************************)
InitProgram ==
  /\ pc = "rtt_init"
  /\ result = "CY_RSLT_SUCCESS"
  /\ status = "NONE"
  /\ irq_configured = FALSE
  /\ ptrTunerSendCallback = "NULL"
  /\ ptrTunerReceiveCallback = "NULL"
  /\ busy = FALSE
  /\ locked = FALSE
  /\ tuner_up_buf = [header |-> <<RTT_TX_HEADER0, RTT_TX_HEADER1>>,
                     tuner_data |-> [i \in 1..SnapSize |-> 0],
                     tail |-> <<RTT_TX_TAIL0, RTT_TX_TAIL1, RTT_TX_TAIL2>>]
  /\ RdOff = 0
  /\ WrOff = 0
  /\ copy_i = 0
  /\ down_fifo = <<>>
  /\ data_index = 0
  /\ command_packet = [i \in 1..PacketSize |-> 0]
  /\ packet = "NULL"
  /\ tuner_packet = "NULL"
  /\ call_log = <<>>
  /\ log_dropped = FALSE
  /\ stream = <<>>
  /\ emitted = <<>>
  /\ check_result = "none"
  /\ ok_this_call = FALSE
  /\ shifts = 0
  /\ last_emit = 0
  /\ read_this_call = FALSE
  /\ split_entry = FALSE
  /\ sent = <<>>
  /\ last_sent = <<>>
  /\ observed = <<>>

\* The whole program: the engine accepts the all-zero packet only, and the
\* host writes one packet's worth of bytes and one byte more.
Init ==
  /\ InitProgram
  /\ cy_capsense_tuner \in Snapshots
  /\ valid_set = {[i \in 1..PacketSize |-> 0]}
  /\ host_budget = PacketSize + 1

(***************************************************************************)
(* main(), lines 110-157, and initialize_capsense(), lines 168-199.        *)
(***************************************************************************)
\* Lines 115-119: SEGGER_RTT_Init and the configuration of the two buffers
\* of the tuner channel.
Main_RttInit ==
  /\ pc = "rtt_init"
  /\ RdOff' = 0
  /\ WrOff' = 0
  /\ pc' = "bsp_init"
  /\ UNCHANGED <<mainVars, busy, locked, cy_capsense_tuner, tuner_up_buf,
                 copy_i, sent, last_sent, down_fifo, recvVars,
                 envVars, logVars, observed>>

\* Lines 122-131: cybsp_init; CY_ASSERT(0) stops the program on failure.
Main_BspInit ==
  /\ pc = "bsp_init"
  /\ \E r \in {"CY_RSLT_SUCCESS", "CY_RSLT_ERROR"} :
       /\ result' = r
       /\ pc' = IF r # "CY_RSLT_SUCCESS" THEN "halted" ELSE "cap_init"
  /\ UNCHANGED <<status, irq_configured, ptrTunerSendCallback,
                 ptrTunerReceiveCallback, busy, cy_capsense_tuner, sendVars,
                 down_fifo, recvVars, envVars, logVars, observed>>

\* Lines 170-182: status = Cy_CapSense_Init(..); the interrupt and
\* Cy_CapSense_Enable follow only on success.
InitCapsense_Init ==
  /\ pc = "cap_init"
  /\ \E st \in {"CY_CAPSENSE_STATUS_SUCCESS", "CY_CAPSENSE_STATUS_BAD"} :
       /\ status' = st
       /\ pc' = IF st = "CY_CAPSENSE_STATUS_SUCCESS"
                  THEN "cap_enable" ELSE "cap_check"
  /\ UNCHANGED <<result, irq_configured, ptrTunerSendCallback,
                 ptrTunerReceiveCallback, busy, cy_capsense_tuner, sendVars,
                 down_fifo, recvVars, envVars, logVars, observed>>

\* Lines 185-190: install and enable capsense_isr, then
\* status = Cy_CapSense_Enable(..).
InitCapsense_Enable ==
  /\ pc = "cap_enable"
  /\ irq_configured' = TRUE
  /\ \E st \in {"CY_CAPSENSE_STATUS_SUCCESS", "CY_CAPSENSE_STATUS_BAD"} :
       status' = st
  /\ pc' = "cap_check"
  /\ UNCHANGED <<result, ptrTunerSendCallback, ptrTunerReceiveCallback, busy,
                 cy_capsense_tuner, sendVars, down_fifo, recvVars, envVars,
                 logVars, observed>>

\* A variant that stops the program on a bad status, as cybsp_init's test does.
AfterStatusCheck_Assert(st) ==
  IF st # "CY_CAPSENSE_STATUS_SUCCESS" THEN "halted" ELSE "init_tuner"

\* Where initialize_capsense goes after its last test of status, lines
\* 193-198: the body of the if is a comment, so either way it returns.
AfterStatusCheck(st) == "init_tuner"

InitCapsense_Check ==
  /\ pc = "cap_check"
  /\ pc' = AfterStatusCheck(status)
  /\ UNCHANGED <<mainVars, busy, cy_capsense_tuner, sendVars, down_fifo,
                 recvVars, envVars, logVars, observed>>

\* initialize_capsense_tuner, lines 222-226.
InitializeCapsenseTuner ==
  /\ pc = "init_tuner"
  /\ ptrTunerSendCallback' = "rtt_tuner_send"
  /\ ptrTunerReceiveCallback' = "rtt_tuner_receive"
  /\ pc' = "first_scan"
  /\ UNCHANGED <<result, status, irq_configured, busy, cy_capsense_tuner,
                 sendVars, down_fifo, recvVars, envVars, logVars, observed>>

\* Cy_CapSense_ScanAllWidgets as main.c sees it: the engine becomes busy
\* until its interrupt handler has seen the scan through.  What an engine
\* that failed to initialise does is not known: it may or may not start.
ScanStarts == IF status = "CY_CAPSENSE_STATUS_SUCCESS" THEN {TRUE} ELSE BOOLEAN

\* Line 140: the first scan.
Main_FirstScan ==
  /\ pc = "first_scan"
  /\ \E b \in ScanStarts : busy' = b
  /\ Log("scan")
  /\ pc' = "poll"
  /\ UNCHANGED <<mainVars, cy_capsense_tuner, sendVars, down_fifo, recvVars,
                 envVars, observed>>

\* A variant of the loop that does not test the engine.
PollGate_Open == TRUE

\* Line 144: CY_CAPSENSE_NOT_BUSY == Cy_CapSense_IsBusy(...).
PollGate == busy = FALSE

\* Line 144: the test of Cy_CapSense_IsBusy; a busy engine leaves the loop
\* where it is.
Main_Poll ==
  /\ pc = "poll"
  /\ PollGate
  /\ Log("idle")
  /\ pc' = "process"
  /\ UNCHANGED <<mainVars, busy, cy_capsense_tuner, sendVars, down_fifo,
                 recvVars, envVars, observed>>

\* A variant of the loop that starts the next scan right after processing.
AfterProcess_SkipTuner == "next_scan"

\* The statement that follows Cy_CapSense_ProcessAllWidgets in the loop.
AfterProcess == "run_tuner"

\* Line 147: Cy_CapSense_ProcessAllWidgets updates the telemetry snapshot.
Main_Process ==
  /\ pc = "process"
  /\ \E s \in Snapshots : cy_capsense_tuner' = s
  /\ Log("process")
  /\ pc' = AfterProcess
  /\ UNCHANGED <<mainVars, busy, sendVars, down_fifo, recvVars, envVars,
                 observed>>

\* Line 150: Cy_CapSense_RunTuner.  The engine calls the registered hooks;
\* in which order and how often is the engine's business.
RunTuner_CallSend ==
  /\ pc = "run_tuner"
  /\ ptrTunerSendCallback = "rtt_tuner_send"
  /\ pc' = "send_lock"
  /\ UNCHANGED <<mainVars, busy, cy_capsense_tuner, sendVars, down_fifo,
                 recvVars, envVars, logVars, observed>>

\* A variant whose cursor is an automatic variable, set to 0 at every call.
CursorAtEntry_Fresh(di) == 0

\* Line 260: data_index is static; a call finds the value the last one left.
CursorAtEntry(di) == di

RunTuner_CallReceive ==
  /\ pc = "run_tuner"
  /\ ptrTunerReceiveCallback = "rtt_tuner_receive"
  /\ packet' = "NULL"
  /\ tuner_packet' = "NULL"
  /\ ok_this_call' = FALSE
  /\ check_result' = "none"
  /\ read_this_call' = FALSE
  /\ split_entry' = (data_index > 0)
  /\ data_index' = CursorAtEntry(data_index)
  /\ pc' = "recv_while"
  /\ UNCHANGED <<mainVars, busy, cy_capsense_tuner, sendVars, down_fifo,
                 command_packet, stream, emitted, shifts,
                 last_emit, envVars, logVars, observed>>

RunTuner_Return ==
  /\ pc = "run_tuner"
  /\ Log("tuner")
  /\ pc' = "next_scan"
  /\ UNCHANGED <<mainVars, busy, cy_capsense_tuner, sendVars, down_fifo,
                 recvVars, envVars, observed>>

\* A variant of main whose loop body runs once.
LoopBack_Exit == "halted"

\* Lines 142 and 155: for (;;) takes the end of the body back to the test.
LoopBack == "poll"

\* Line 153: the next scan.
Main_NextScan ==
  /\ pc = "next_scan"
  /\ \E b \in ScanStarts : busy' = b
  /\ Log("scan")
  /\ pc' = LoopBack
  /\ UNCHANGED <<mainVars, cy_capsense_tuner, sendVars, down_fifo, recvVars,
                 envVars, observed>>

\* A variant of the engine's handler that stores into the snapshot.
SnapshotAfterIsr_Written(snap) == [i \in 1..SnapSize |-> 1 - (snap[i] % 2)]

\* The telemetry snapshot after Cy_CapSense_InterruptHandler: the handler
\* works on the engine's acquisition state only.
SnapshotAfterIsr(snap) == snap

\* capsense_isr, lines 209-212: the engine's handler ends the acquisition.
\* The interrupt is taken only once installed, and not inside
\* SEGGER_RTT_LOCK, which masks interrupts.
capsense_isr ==
  /\ irq_configured
  /\ ~locked
  /\ busy
  /\ busy' = FALSE
  /\ cy_capsense_tuner' = SnapshotAfterIsr(cy_capsense_tuner)
  /\ UNCHANGED <<pc, mainVars, sendVars, down_fifo,
                 recvVars, envVars, logVars, observed>>

(***************************************************************************)
(* rtt_tuner_send, lines 236-247.                                          *)
(***************************************************************************)
\* A variant of the send hook that does not take the lock.
Send_Lock_Omitted ==
  /\ pc = "send_lock"
  /\ locked' = FALSE
  /\ pc' = "send_rdoff"
  /\ UNCHANGED <<mainVars, busy, cy_capsense_tuner, tuner_up_buf, RdOff,
                 WrOff, copy_i, sent, last_sent, down_fifo,
                 recvVars, envVars, logVars, observed>>

\* Line 240: SEGGER_RTT_LOCK.
Send_Lock ==
  /\ pc = "send_lock"
  /\ locked' = TRUE
  /\ pc' = "send_rdoff"
  /\ UNCHANGED <<mainVars, busy, cy_capsense_tuner, tuner_up_buf, RdOff,
                 WrOff, copy_i, sent, last_sent, down_fifo,
                 recvVars, envVars, logVars, observed>>

\* Line 242: buffer->RdOff = 0u.
Send_RdOff ==
  /\ pc = "send_rdoff"
  /\ RdOff' = 0
  /\ pc' = "send_wroff"
  /\ UNCHANGED <<mainVars, busy, cy_capsense_tuner, locked, tuner_up_buf,
                 WrOff, copy_i, sent, last_sent, down_fifo,
                 recvVars, envVars, logVars, observed>>

\* A variant that stores the size given to SEGGER_RTT_ConfigUpBuffer.
SendWrOff_BufferSize == SizeofUpBuf + 1

\* The write length line 243 stores: sizeof(tuner_up_buf).
SendWrOff == SizeofUpBuf

\* Line 243: buffer->WrOff = sizeof(tuner_up_buf).  From here on the offsets
\* announce a frame that carries the current snapshot.
Send_WrOff ==
  /\ pc = "send_wroff"
  /\ WrOff' = SendWrOff
  /\ sent' = cy_capsense_tuner
  /\ pc' = "send_memcpy"
  /\ UNCHANGED <<mainVars, busy, cy_capsense_tuner, locked, tuner_up_buf,
                 RdOff, copy_i, last_sent, down_fifo, recvVars,
                 envVars, logVars, observed>>

\* A variant whose destination is the start of tuner_up_buf.
MemcpyByte_ToStruct(buf, i) ==
  IF i < 2
    THEN [buf EXCEPT !.header[i + 1] = cy_capsense_tuner[i + 1]]
    ELSE [buf EXCEPT !.tuner_data[i - 1] = cy_capsense_tuner[i + 1]]

\* One byte of the memcpy of line 245: byte i (from 0) of cy_capsense_tuner
\* goes to tuner_up_buf.tuner_data[i].
MemcpyByte(buf, i) ==
  [buf EXCEPT !.tuner_data[i + 1] = cy_capsense_tuner[i + 1]]

\* Line 245: memcpy(tuner_up_buf.tuner_data, &cy_capsense_tuner,
\* sizeof(cy_capsense_tuner)), a byte at a time.
Send_Memcpy ==
  /\ pc = "send_memcpy"
  /\ copy_i < SnapSize
  /\ tuner_up_buf' = MemcpyByte(tuner_up_buf, copy_i)
  /\ copy_i' = copy_i + 1
  /\ pc' = IF copy_i + 1 = SnapSize THEN "send_unlock" ELSE "send_memcpy"
  /\ UNCHANGED <<mainVars, busy, cy_capsense_tuner, locked, RdOff, WrOff,
                 sent, last_sent, down_fifo, recvVars, envVars,
                 logVars, observed>>

\* Line 246: SEGGER_RTT_UNLOCK, and the return to the engine.
Send_Unlock ==
  /\ pc = "send_unlock"
  /\ locked' = FALSE
  /\ copy_i' = 0
  /\ last_sent' = [snap |-> cy_capsense_tuner, env |-> Bytes(tuner_up_buf),
                   rd |-> RdOff, wr |-> WrOff]
  /\ pc' = "run_tuner"
  /\ UNCHANGED <<mainVars, busy, cy_capsense_tuner, tuner_up_buf, RdOff,
                 WrOff, sent, down_fifo, recvVars, envVars, logVars,
                 observed>>

(***************************************************************************)
(* rtt_tuner_receive, lines 257-286.                                       *)
(***************************************************************************)
\* A variant that stores every byte at index 0.
StoreByte_AtFront(buf, di, byte) == [buf EXCEPT ![1] = byte]

\* Line 266: command_packet[data_index++] = byte (the array is indexed from
\* 0 in C and from 1 here).
StoreByte(buf, di, byte) == [buf EXCEPT ![di + 1] = byte]

\* Lines 262-266: the transport has data; read one byte and store it.
Recv_ReadByte ==
  /\ pc = "recv_while"
  /\ down_fifo # <<>>
  /\ command_packet' = StoreByte(command_packet, data_index, Head(down_fifo))
  /\ data_index' = data_index + 1
  /\ down_fifo' = Tail(down_fifo)
  /\ stream' = Append(stream, Head(down_fifo))
  /\ check_result' = "none"
  /\ read_this_call' = TRUE
  /\ pc' = "recv_check"
  /\ UNCHANGED <<mainVars, busy, cy_capsense_tuner, sendVars, packet,
                 tuner_packet, emitted, ok_this_call, shifts, last_emit,
                 split_entry, envVars, logVars, observed>>

\* A variant that hands the buffer out whenever the hook returns.
PacketAtExit_Set(p) == "command_packet"

\* *packet when the loop ends at line 262: nothing after the loop assigns it.
PacketAtExit(p) == p

\* Line 262, SEGGER_RTT_HasData returns 0: the loop ends and the hook returns.
Recv_Exit ==
  /\ pc = "recv_while"
  /\ down_fifo = <<>>
  /\ packet' = PacketAtExit(packet)
  /\ pc' = "run_tuner"
  /\ UNCHANGED <<mainVars, busy, cy_capsense_tuner, sendVars, down_fifo,
                 data_index, command_packet, tuner_packet, stream, emitted,
                 check_result, ok_this_call, recvHist, envVars, logVars,
                 observed>>

\* A variant that discards the whole buffer after a failed check.
CursorAfterFailure_Reset(di) == 0

\* A variant that forgets the decrement.
CursorAfterFailure_Keep(di) == di

\* Line 278: data_index--.
CursorAfterFailure(di) == di - 1

\* Line 261: the number of entries of command_packet, which is the packet
\* size.
CommandPacketLen == PacketSize

\* Lines 279-282: the C indices i and i + 1 that the shift loop uses when it
\* runs with the cursor di.
ShiftLoopIndices(di) == UNION {{i, i + 1} : i \in 0..(di - 1)}

\* A variant without the shift loop.
ShiftLeft_None(buf) == buf

\* Lines 279-282: every byte moves one place toward index 0; the last place
\* keeps its byte.
ShiftLeft(buf) ==
  [i \in 1..PacketSize |-> IF i < PacketSize THEN buf[i + 1] ELSE buf[i]]

\* A variant that hands the buffer out after a failed check too.
PacketAfterFailure_Set(p) == "command_packet"

\* *packet after a failed check: the else branch does not assign it.
PacketAfterFailure(p) == p

\* A variant without the break: the loop goes on after a passed check.
AfterSuccess_NoBreak == "recv_while"

\* Line 274: break leaves the loop, and the hook returns.
AfterSuccess == "run_tuner"

\* Lines 267-284: the test of the cursor and, on a full buffer, the integrity
\* check with its two outcomes.
Recv_Check ==
  /\ pc = "recv_check"
  /\ IF data_index = PacketSize
       THEN IF Cy_CapSense_CheckTunerCmdIntegrity(command_packet)
                 = "CY_CAPSENSE_COMMAND_OK"
              THEN /\ data_index' = 0
                   /\ tuner_packet' = "cy_capsense_tuner"
                   /\ packet' = "command_packet"
                   /\ command_packet' = command_packet
                   /\ emitted' = Append(emitted, command_packet)
                   /\ last_emit' = Len(stream)
                   /\ shifts' = shifts
                   /\ pc' = AfterSuccess
              ELSE /\ data_index' = CursorAfterFailure(data_index)
                   /\ command_packet' = ShiftLeft(command_packet)
                   /\ packet' = PacketAfterFailure(packet)
                   /\ tuner_packet' = tuner_packet
                   /\ emitted' = emitted
                   /\ last_emit' = last_emit
                   /\ shifts' = shifts + 1
                   /\ pc' = "recv_while"
       ELSE /\ pc' = "recv_while"
            /\ UNCHANGED <<data_index, command_packet, packet, tuner_packet,
                           emitted, last_emit, shifts>>
  /\ check_result' =
       IF data_index # PacketSize THEN "none"
       ELSE IF command_packet \in valid_set THEN "ok" ELSE "fail"
  /\ ok_this_call' = (ok_this_call \/ check_result' = "ok")
  /\ UNCHANGED <<mainVars, busy, cy_capsense_tuner, sendVars, down_fifo,
                 stream, read_this_call, split_entry, envVars, logVars,
                 observed>>

(***************************************************************************)
(* The debug host: the writer of the down channel and the reader of the    *)
(* up channel.                                                             *)
(***************************************************************************)
\* The host writes one byte to the down channel, which holds at most
\* sizeof(tuner_down_buf) - 1 bytes.
HostWrite ==
  /\ host_budget > 0
  /\ Len(down_fifo) < DownBufSize - 1
  /\ \E b \in CmdBytes : down_fifo' = Append(down_fifo, b)
  /\ host_budget' = host_budget - 1
  /\ UNCHANGED <<pc, mainVars, busy, cy_capsense_tuner, sendVars, recvVars,
                 valid_set, logVars, observed>>

\* The consumer of the up channel reads the bytes [RdOff, WrOff) and moves
\* RdOff up to WrOff.  It stays out of the locked region.
TransportConsumer ==
  /\ ~locked
  /\ RdOff < WrOff
  /\ observed' = [bytes |-> Pending(tuner_up_buf, RdOff, WrOff),
                  rd |-> RdOff, wr |-> WrOff, sent |-> sent]
  /\ RdOff' = WrOff
  /\ UNCHANGED <<pc, mainVars, busy, cy_capsense_tuner, locked, tuner_up_buf,
                 WrOff, copy_i, sent, last_sent, down_fifo,
                 recvVars, envVars, logVars>>

(***************************************************************************)
(* The whole program with its environment.                                 *)
(***************************************************************************)
Next ==
  \/ Main_RttInit
  \/ Main_BspInit
  \/ InitCapsense_Init
  \/ InitCapsense_Enable
  \/ InitCapsense_Check
  \/ InitializeCapsenseTuner
  \/ Main_FirstScan
  \/ Main_Poll
  \/ Main_Process
  \/ RunTuner_CallSend
  \/ RunTuner_CallReceive
  \/ RunTuner_Return
  \/ Main_NextScan
  \/ capsense_isr
  \/ Send_Lock
  \/ Send_RdOff
  \/ Send_WrOff
  \/ Send_Memcpy
  \/ Send_Unlock
  \/ Recv_ReadByte
  \/ Recv_Exit
  \/ Recv_Check
  \/ HostWrite
  \/ TransportConsumer

Spec == Init /\ [][Next]_vars

\* The steps of the foreground thread: main, the engine's tuner sync and the
\* two hooks.  The processor keeps executing them.
Foreground ==
  \/ Main_RttInit
  \/ Main_BspInit
  \/ InitCapsense_Init
  \/ InitCapsense_Enable
  \/ InitCapsense_Check
  \/ InitializeCapsenseTuner
  \/ Main_FirstScan
  \/ Main_Poll
  \/ Main_Process
  \/ RunTuner_CallSend
  \/ RunTuner_CallReceive
  \/ RunTuner_Return
  \/ Main_NextScan
  \/ Send_Lock
  \/ Send_RdOff
  \/ Send_WrOff
  \/ Send_Memcpy
  \/ Send_Unlock
  \/ Recv_ReadByte
  \/ Recv_Exit
  \/ Recv_Check

\* The whole program with a foreground that keeps running and an engine whose
\* tuner sync calls the hooks finitely often before it returns.
SpecFair == Spec /\ WF_vars(Foreground) /\ SF_vars(RunTuner_Return)

(***************************************************************************)
(* The receive hook under an arbitrary caller: the program stands in       *)
(* Cy_CapSense_RunTuner of its first cycle, the engine calls the receive   *)
(* hook again and again, the host writes any MaxStream bytes at any        *)
(* moments, and the integrity predicate is any member of ValidFamilies.    *)
(***************************************************************************)
InitRecv ==
  /\ pc = "run_tuner"
  /\ result = "CY_RSLT_SUCCESS"
  /\ status = "CY_CAPSENSE_STATUS_SUCCESS"
  /\ irq_configured = TRUE
  /\ ptrTunerSendCallback = "rtt_tuner_send"
  /\ ptrTunerReceiveCallback = "rtt_tuner_receive"
  /\ busy = FALSE
  /\ locked = FALSE
  /\ cy_capsense_tuner = [i \in 1..SnapSize |-> i]
  /\ tuner_up_buf = [header |-> <<RTT_TX_HEADER0, RTT_TX_HEADER1>>,
                     tuner_data |-> [i \in 1..SnapSize |-> 0],
                     tail |-> <<RTT_TX_TAIL0, RTT_TX_TAIL1, RTT_TX_TAIL2>>]
  /\ RdOff = 0
  /\ WrOff = 0
  /\ copy_i = 0
  /\ down_fifo = <<>>
  /\ data_index = 0
  /\ command_packet = [i \in 1..PacketSize |-> 0]
  /\ packet = "NULL"
  /\ tuner_packet = "NULL"
  /\ call_log = <<"scan", "idle", "process">>
  /\ log_dropped = FALSE
  /\ stream = <<>>
  /\ emitted = <<>>
  /\ check_result = "none"
  /\ ok_this_call = FALSE
  /\ shifts = 0
  /\ last_emit = 0
  /\ read_this_call = FALSE
  /\ split_entry = FALSE
  /\ sent = <<>>
  /\ last_sent = <<>>
  /\ observed = <<>>
  /\ valid_set \in ValidFamilies
  /\ host_budget = MaxStream

NextRecv ==
  \/ RunTuner_CallReceive
  \/ Recv_ReadByte
  \/ Recv_Exit
  \/ Recv_Check
  \/ HostWrite

SpecRecv == InitRecv /\ [][NextRecv]_vars

\* The foreground keeps running: the engine calls the receive hook in every
\* cycle of the loop, and a hook that has been called runs on.
RecvForeground ==
  RunTuner_CallReceive \/ Recv_ReadByte \/ Recv_Exit \/ Recv_Check

SpecRecvFair == SpecRecv /\ WF_vars(RecvForeground)

(***************************************************************************)
(* Properties of the receive hook, checked under SpecRecv.                 *)
(***************************************************************************)
\* The window of the stream that ends at its byte number e.
WindowEndingAt(e) == SubSeq(stream, e - PacketSize + 1, e)

\* A window of the stream that ends before the byte read last passes the
\* integrity predicate.
EarlierWindowValid ==
  \E e \in PacketSize..(Len(stream) - 1) : WindowEndingAt(e) \in valid_set

\* The byte read last completes a window that passes the predicate, and the
\* hook has handled that byte.
LastWindowHandledValid ==
  /\ Len(stream) >= PacketSize
  /\ WindowEndingAt(Len(stream)) \in valid_set
  /\ pc # "recv_check"

\* The reassembler started empty; the stream read so far is
\* k <= PacketSize - 1 noise bytes followed by at most one packet, and no
\* window before the last one passes the predicate.  Then once the last byte
\* of a valid packet has been handled exactly one command has been emitted
\* and it is that packet, and until then no command has been emitted.
ResyncEmitsFirstValid ==
  (Len(stream) <= 2 * PacketSize - 1 /\ ~EarlierWindowValid) =>
     IF LastWindowHandledValid
       THEN emitted = <<WindowEndingAt(Len(stream))>>
       ELSE emitted = <<>>

\* C1: resync correctness.  For k <= PacketSize - 1 noise bytes followed by a
\* valid packet, with no earlier window passing the predicate and however
\* the bytes are split over invocations: every byte the host has written is
\* eventually handled, no command is emitted before the packet's last byte
\* is handled, and then exactly one command, the packet, has been emitted.
C1_ResyncCorrect ==
  /\ []ResyncEmitsFirstValid
  /\ []<>(down_fifo = <<>> /\ pc = "run_tuner")

\* C1 witness: PacketSize - 1 noise bytes, then the valid packet, emitted
\* alone after PacketSize - 1 failed checks.
C1_Witness ==
  /\ Len(stream) = 2 * PacketSize - 1
  /\ ~EarlierWindowValid
  /\ LastWindowHandledValid
  /\ Len(emitted) = 1
  /\ data_index = 0

\* C2: the cursor stays within 0..PacketSize, after every byte and in every
\* invocation.
C2_CursorInRange == data_index \in 0..PacketSize

\* C2 witness: the cursor reaches PacketSize again after a resync.
C2_Witness ==
  /\ pc = "recv_check"
  /\ data_index = PacketSize
  /\ Len(stream) > PacketSize

\* The step in which the receive hook returns to the engine.
RecvReturns == pc \in {"recv_while", "recv_check"} /\ pc' = "run_tuner"

\* C3: the hook writes its two outputs only in a step whose full buffer
\* passes the integrity predicate; an invocation without such a step returns
\* with both outputs as they were at the call, and only when the transport
\* has no byte left; a failed check emits nothing.
C3_OutputsOnlyOnValid ==
  [][/\ (pc # "run_tuner"
           /\ <<packet, tuner_packet, emitted>>'
                # <<packet, tuner_packet, emitted>>)
        => (/\ pc = "recv_check"
            /\ data_index = PacketSize
            /\ command_packet \in valid_set)
     /\ RecvReturns =>
          IF ok_this_call'
            THEN /\ packet' = "command_packet"
                 /\ tuner_packet' = "cy_capsense_tuner"
            ELSE /\ packet' = "NULL"
                 /\ tuner_packet' = "NULL"
                 /\ down_fifo = <<>>]_vars

\* C3 witness: an invocation that saw a failed check has returned, outputs
\* untouched.
C3_Witness ==
  /\ pc = "run_tuner"
  /\ ~ok_this_call
  /\ check_result = "fail"
  /\ packet = "NULL"
  /\ tuner_packet = "NULL"
  /\ emitted = <<>>

\* C4: bounded response.  When the PacketSize bytes of the stream that start
\* at the window position (the last PacketSize bytes read, once the cursor
\* has reached PacketSize) pass the predicate, the check made on the last of
\* them emits exactly those bytes and sets the cursor to 0.
C4_BoundedResponse ==
  [][(/\ pc = "recv_check"
      /\ pc' # "recv_check"
      /\ data_index = PacketSize
      /\ WindowEndingAt(Len(stream)) \in valid_set)
     => (/\ emitted' = Append(emitted, WindowEndingAt(Len(stream)))
         /\ data_index' = 0
         /\ packet' = "command_packet"
         /\ command_packet' = WindowEndingAt(Len(stream)))]_vars

\* C4 witness: a packet emitted from a window that does not start at the
\* first byte of the stream.
C4_Witness ==
  /\ check_result = "ok"
  /\ Len(stream) > PacketSize
  /\ Len(emitted) = 1
  /\ emitted[1] = WindowEndingAt(Len(stream))
  /\ data_index = 0

\* C10 as stated: after any integrity check, passed or failed, the cursor
\* is 0.
C10_ResetOnEveryOutcome == check_result # "none" => data_index = 0

\* C10 amended: after a passed check the cursor is 0; after a failed check
\* it is PacketSize - 1.
C10_ResetOnSuccessOnly ==
  /\ check_result = "ok" => data_index = 0
  /\ check_result = "fail" => data_index = PacketSize - 1

\* C10 witness: a failed check has just left the cursor at PacketSize - 1.
C10_Witness ==
  /\ check_result = "fail"
  /\ data_index = PacketSize - 1
  /\ pc = "recv_while"

(***************************************************************************)
(* Properties of the scheduler and of the send hook, checked under Spec.   *)
(***************************************************************************)
\* The pairs of consecutive calls of scan, (idle, process, tuner, scan)*.
AllowedNext ==
  {<<"scan", "idle">>, <<"idle", "process">>, <<"process", "tuner">>,
   <<"tuner", "scan">>}

\* C5: scheduler ordering.  The calls of the main loop form a prefix of
\* scan, (idle, process, tuner-sync, scan)*: process follows an observation
\* of a not-busy engine made after the last scan trigger, and every scan but
\* the first follows the return of process and then of tuner-sync.
C5_SchedulerOrder ==
  /\ \A i \in 1..(Len(call_log) - 1) :
       <<call_log[i], call_log[i + 1]>> \in AllowedNext
  /\ (call_log # <<>> /\ ~log_dropped) => call_log[1] = "scan"

\* C5 witness: the loop is in its second cycle and the log has wrapped.
C5_Witness ==
  /\ log_dropped
  /\ call_log[Len(call_log)] = "process"
  /\ pc = "run_tuner"

\* C6 as stated: after a bad status from the engine's init or enable step no
\* scan is triggered and the program is stopped or still in
\* initialize_capsense.
C6_HaltOnEngineInitFailure ==
  status = "CY_CAPSENSE_STATUS_BAD" =>
    (call_log = <<>> /\ pc \in {"cap_check", "halted"})

\* C6 amended: a bad status from the engine's init or enable step does not
\* stop the program.  A failed init skips the interrupt set-up and the
\* enable step; with any status initialize_capsense returns, the tuner hooks
\* are registered and the first scan is triggered.
C6_EngineInitFailureIgnored ==
  [][/\ status' = "CY_CAPSENSE_STATUS_BAD" => pc' # "halted"
     /\ pc' # pc =>
          /\ (pc = "cap_init" /\ status' = "CY_CAPSENSE_STATUS_BAD")
               => (pc' = "cap_check" /\ irq_configured' = FALSE)
          /\ pc = "cap_check" => pc' = "init_tuner"
          /\ pc = "init_tuner"
               => (/\ pc' = "first_scan"
                   /\ ptrTunerSendCallback' = "rtt_tuner_send"
                   /\ ptrTunerReceiveCallback' = "rtt_tuner_receive")
          /\ pc = "first_scan" => (pc' = "poll" /\ call_log' = <<"scan">>)]_vars

\* C6 witness: the engine failed to initialise and the first scan has been
\* triggered.
C6_Witness ==
  /\ status = "CY_CAPSENSE_STATUS_BAD"
  /\ call_log = <<"scan">>
  /\ pc = "poll"
  /\ ptrTunerSendCallback = "rtt_tuner_send"

\* The step in which the send hook returns to the engine.
SendReturns == pc = "send_unlock" /\ pc' = "run_tuner"

\* C7: the header and the trailer of tuner_up_buf keep their start-up values
\* in every state, and a send that returns with the snapshot the send before
\* it returned with leaves the same envelope, read offset and write length.
C7_SendIdempotent ==
  /\ [](/\ tuner_up_buf.header = <<RTT_TX_HEADER0, RTT_TX_HEADER1>>
        /\ tuner_up_buf.tail = <<RTT_TX_TAIL0, RTT_TX_TAIL1, RTT_TX_TAIL2>>)
  /\ [][(/\ SendReturns
         /\ last_sent # <<>>
         /\ last_sent.snap = cy_capsense_tuner)
        => (/\ Bytes(tuner_up_buf') = last_sent.env
            /\ RdOff' = last_sent.rd
            /\ WrOff' = last_sent.wr)]_vars

\* C7 witness: a second send is about to return with the snapshot of the
\* first, after the consumer moved the read offset in between.
C7_Witness ==
  /\ pc = "send_unlock"
  /\ last_sent # <<>>
  /\ last_sent.snap = cy_capsense_tuner
  /\ observed # <<>>

\* C8: when the send hook returns, the read offset is 0, the write length is
\* S + 5, and the bytes between them are 0x0D, 0x0A, the S snapshot bytes,
\* 0x00, 0xFF, 0xFF.
C8_EnvelopeExact ==
  [][SendReturns
       => (/\ RdOff' = 0
           /\ WrOff' = SnapSize + 5
           /\ Pending(tuner_up_buf', RdOff', WrOff')
                = <<13, 10>> \o cy_capsense_tuner' \o <<0, 255, 255>>)]_vars

\* C8 witness: the send hook has returned with the snapshot {1, 2} and the
\* transport holds 0D 0A 01 02 00 FF FF.
C8_Witness ==
  /\ pc = "run_tuner"
  /\ last_sent # <<>>
  /\ last_sent.snap = <<1, 2>>
  /\ Pending(tuner_up_buf, RdOff, WrOff) = <<13, 10, 1, 2, 0, 255, 255>>

\* C9: every frame the consumer reads is a whole one: offsets 0 and
\* sizeof(tuner_up_buf), and header, the snapshot those offsets were set
\* for, trailer.
C9_NoTornFrame ==
  observed # <<>> =>
    /\ observed.rd = 0
    /\ observed.wr = SizeofUpBuf
    /\ observed.bytes
         = <<RTT_TX_HEADER0, RTT_TX_HEADER1>> \o observed.sent
             \o <<RTT_TX_TAIL0, RTT_TX_TAIL1, RTT_TX_TAIL2>>

\* C9 witness: the consumer has read a frame, and a later send has set the
\* offsets while the payload still holds part of the older snapshot.
C9_Witness ==
  /\ observed # <<>>
  /\ pc = "send_memcpy"
  /\ copy_i > 0
  /\ WrOff = SizeofUpBuf
  /\ tuner_up_buf.tuner_data # cy_capsense_tuner
  /\ tuner_up_buf.tuner_data # observed.sent

(***************************************************************************)
(* Further properties of the receive hook, checked under SpecRecv.         *)
(***************************************************************************)
\* The concrete resync scenario, scaled to PacketSize: the noise bytes
\* 0xAA, 0xAA, 0xBB become 1, 1, 0 and the valid suffix is 0 .. 0 1, the
\* only packet the predicate accepts.
ScenarioSuffix == [i \in 1..PacketSize |-> IF i = PacketSize THEN 1 ELSE 0]
ScenarioStream == <<1, 1, 0>> \o ScenarioSuffix

\* The whole scenario stream has been read and handled.
ScenarioDone ==
  /\ valid_set = {ScenarioSuffix}
  /\ stream = ScenarioStream
  /\ pc # "recv_check"

\* C11 as stated: after the scenario exactly one command, the suffix, has
\* been emitted and exactly 1 resync shift has occurred.
C11_OneShift ==
  ScenarioDone => (emitted = <<ScenarioSuffix>> /\ shifts = 1)

\* C11 amended: when the only window of the stream that passes the predicate
\* is its last one and that window has been handled, exactly one command,
\* that window, has been emitted, and one resync shift has occurred for every
\* byte that precedes it (3 in the scenario).
C11_ShiftPerNoiseByte ==
  (~EarlierWindowValid /\ LastWindowHandledValid) =>
     /\ emitted = <<WindowEndingAt(Len(stream))>>
     /\ shifts = Len(stream) - PacketSize

\* C11 witness: the scenario is done, fed over more than one invocation,
\* with three shifts.
C11_Witness ==
  /\ ScenarioDone
  /\ split_entry
  /\ emitted = <<ScenarioSuffix>>
  /\ shifts = 3

\* C14: a passed integrity check sets the cursor to 0, hands out the command
\* buffer and the telemetry snapshot and ends the invocation at once, reading
\* nothing more: a byte still in the transport stays there, and no invocation
\* goes on after it has emitted a command.
C14_SuccessStopsDraining ==
  [][/\ (pc = "recv_check" /\ pc' # pc /\ check_result' = "ok")
        => (/\ data_index' = 0
            /\ packet' = "command_packet"
            /\ tuner_packet' = "cy_capsense_tuner"
            /\ emitted' = Append(emitted, command_packet)
            /\ down_fifo' = down_fifo
            /\ stream' = stream
            /\ pc' = "run_tuner")
     /\ pc' \in {"recv_while", "recv_check"} => ~ok_this_call']_vars

\* C14 witness: the hook has returned after a passed check while the
\* transport still holds a byte.
C14_Witness ==
  /\ pc = "run_tuner"
  /\ check_result = "ok"
  /\ ok_this_call
  /\ data_index = 0
  /\ packet = "command_packet"
  /\ down_fifo # <<>>

\* C15: a failed check on the buffer b leaves the cursor at PacketSize - 1
\* and b[1 .. PacketSize-1] (C indices) at the indices 0 .. PacketSize-2, in
\* the same order.
C15_ResyncDropsOldest ==
  [][(pc = "recv_check" /\ pc' # pc /\ check_result' = "fail")
       => (/\ data_index = PacketSize
           /\ data_index' = PacketSize - 1
           /\ \A i \in 1..(PacketSize - 1) :
                command_packet'[i] = command_packet[i + 1])]_vars

\* C15 witness: a failed check has just dropped a byte that differs from
\* the byte now in front.
C15_Witness ==
  /\ pc = "recv_while"
  /\ check_result = "fail"
  /\ data_index = PacketSize - 1
  /\ SubSeq(command_packet, 1, PacketSize - 1)
       = LastN(stream, PacketSize - 1)
  /\ command_packet[1] # stream[Len(stream) - PacketSize + 1]

\* C16: an invocation whose first test of the transport finds no byte
\* returns at once and leaves the cursor, the buffer, both outputs and the
\* transport as they were; the integrity predicate has not been evaluated.
C16_EmptyCallIsNoOp ==
  [][(pc = "recv_while" /\ ~read_this_call /\ down_fifo = <<>> /\ pc' # pc)
       => (/\ pc' = "run_tuner"
           /\ ~read_this_call'
           /\ check_result' = "none"
           /\ UNCHANGED <<data_index, command_packet, packet, tuner_packet,
                          down_fifo, stream, emitted, shifts>>)]_vars

\* C16 witness: an invocation that began with a partial packet has returned
\* without reading a byte.
C16_Witness ==
  /\ pc = "run_tuner"
  /\ split_entry
  /\ ~read_this_call
  /\ check_result = "none"
  /\ data_index > 0
  /\ packet = "NULL"
  /\ tuner_packet = "NULL"

\* The number of bytes of the stream that the hook has dealt with: the byte
\* read last awaits its test at recv_check.
Handled == IF pc = "recv_check" THEN Len(stream) - 1 ELSE Len(stream)

\* The commands that one pass over the first n bytes of the stream gives,
\* whatever the invocations were: s is the stream position of the oldest
\* byte kept and e the position of the byte being taken in.
RECURSIVE OnePass(_, _, _)
OnePass(s, e, n) ==
  IF e > n THEN <<>>
  ELSE IF e - s + 1 < PacketSize THEN OnePass(s, e + 1, n)
  ELSE IF SubSeq(stream, s, e) \in valid_set
         THEN <<SubSeq(stream, s, e)>> \o OnePass(e + 1, e + 1, n)
         ELSE OnePass(s + 1, e + 1, n)

\* C17: chunking independence.  However the arrival of the stream is split
\* over invocations, the commands emitted so far are those of one pass over
\* the bytes dealt with so far: they depend on the stream only.
C17_ChunkingIndependent == emitted = OnePass(1, 1, Handled)

\* C17 witness: two commands have been emitted, the second one in an
\* invocation that found the first part of its packet already in the buffer.
C17_Witness ==
  /\ pc = "run_tuner"
  /\ split_entry
  /\ check_result = "ok"
  /\ Len(emitted) = 2

\* C19: the sliding window.  The first data_index entries of the buffer are
\* the last data_index bytes read, in arrival order, all of them read after
\* the command emitted last; at an evaluation of the predicate that is the
\* whole buffer, the last PacketSize bytes read.
C19_SlidingWindow ==
  /\ data_index <= Len(stream) - last_emit
  /\ SubSeq(command_packet, 1, data_index) = LastN(stream, data_index)
  /\ (pc = "recv_check" /\ data_index = PacketSize) =>
       command_packet = WindowEndingAt(Len(stream))

\* C19 witness: a partial packet in the buffer, read after a command that
\* was itself emitted after a resync.
C19_Witness ==
  /\ last_emit > PacketSize
  /\ data_index = PacketSize - 1
  /\ Len(stream) = last_emit + data_index
  /\ pc = "recv_while"

\* C20: buffer bounds.  The store of line 266 and the shift loop of lines
\* 279-282 use indices of command_packet only, and the hook returns with a
\* cursor below the packet size.
C20_BufferBounds ==
  /\ pc = "recv_while" => data_index \in 0..(CommandPacketLen - 1)
  /\ pc = "recv_check" =>
       /\ (data_index - 1) \in 0..(CommandPacketLen - 1)
       /\ data_index >= PacketSize =>
            ShiftLoopIndices(CursorAfterFailure(data_index))
              \subseteq 0..(CommandPacketLen - 1)
  /\ pc = "run_tuner" => data_index < PacketSize

\* C20 witness: after two resyncs the next byte is about to be stored in the
\* last entry of the buffer.
C20_Witness ==
  /\ pc = "recv_while"
  /\ shifts >= 2
  /\ data_index = CommandPacketLen - 1
  /\ down_fifo # <<>>

(***************************************************************************)
(* Further properties of the scheduler, checked under Spec and SpecFair.   *)
(***************************************************************************)
\* The positions of process-all-widgets, of the tuner sync and of its hooks.
ReadingEngine ==
  pc \in {"process", "run_tuner", "send_lock", "send_rdoff", "send_wroff",
          "send_memcpy", "send_unlock", "recv_while", "recv_check"}

\* C12: in every interleaving of the acquisition-complete interrupt with the
\* main loop, the engine is not busy with a scan while process-all-widgets,
\* the tuner sync or one of its hooks is executing.
C12_NoScanWhileReading == ReadingEngine => busy = FALSE

\* C12 witness: a hook runs after a scan that was started with the engine
\* initialised and that the interrupt has completed.
C12_Witness ==
  /\ pc = "send_memcpy"
  /\ status = "CY_CAPSENSE_STATUS_SUCCESS"
  /\ irq_configured
  /\ \E i \in 1..Len(call_log) : call_log[i] = "scan"
  /\ busy = FALSE

\* The positions of the scan loop of main, lines 142-156.
InLoop == pc = "poll" \/ pc = "next_scan" \/ ReadingEngine

\* C13: the scan loop is never left, and if every triggered scan eventually
\* completes (and the tuner sync returns, which SpecFair assumes), then once
\* the loop is entered process-all-widgets, the tuner sync and the trigger of
\* the next scan each happen again and again.
C13_RunsForever ==
  /\ [][InLoop => InLoop']_vars
  /\ ([]<>(busy = FALSE) /\ <>InLoop) =>
       /\ []<>(pc = "process")
       /\ []<>(pc = "run_tuner")
       /\ []<>(pc = "next_scan")

\* C13 witness: the loop has gone round often enough for the log to wrap and
\* stands before the trigger of another scan.
C13_Witness ==
  /\ log_dropped
  /\ pc = "next_scan"
  /\ call_log[Len(call_log)] = "tuner"
  /\ \E i \in 1..Len(call_log) : call_log[i] = "scan"

\* C18: the step of the acquisition-complete interrupt handler, wherever it
\* falls, changes the engine's acquisition state only: the outbound
\* envelope and its offsets, the command buffer and its cursor, and the
\* telemetry snapshot stay as they were, and so does the foreground.
C18_IsrFrame ==
  [][(busy /\ ~busy')
       => UNCHANGED <<tuner_up_buf, RdOff, WrOff, command_packet, data_index,
                      cy_capsense_tuner, pc, locked, down_fifo, packet,
                      tuner_packet>>]_vars

\* C18 witness: the handler has completed a scan of a later cycle, with an
\* envelope written and a partial command in the buffer.
C18_Witness ==
  /\ pc = "poll"
  /\ status = "CY_CAPSENSE_STATUS_SUCCESS"
  /\ call_log[Len(call_log)] = "scan"
  /\ \E i \in 1..Len(call_log) : call_log[i] = "tuner"
  /\ busy = FALSE
  /\ WrOff = SizeofUpBuf
  /\ data_index > 0

====
